---------------------------- MODULE Spec2Model ----------------------------
(***************************************************************************)
(* The epidemic step engine (SEAIR.simulate) and the decision-process      *)
(* control loop (MarkovDecisionProcess) of the vaccine-allocation          *)
(* simulator.                                                              *)
(*                                                                         *)
(* Numbers.  The program computes with floating-point arrays.  Here every  *)
(* quantity is a fixed-point integer and every product or quotient is      *)
(* rounded down to the grid (\div), so sums and differences are exact:     *)
(*   compartments, doses      units of one person-grid-step                *)
(*   probabilities            units of 1/ProbScale                         *)
(*   contact weights          units of 1/WeightScale                       *)
(*   alphas                   units of 1/AlphaScale                        *)
(*   R, infectiousness, flow scale, age flow scaling   units of 1/10       *)
(* Arrays of shape (regions x age groups) are functions over Cells.        *)
(***************************************************************************)
EXTENDS Integers, Sequences, FiniteSets, TLC

Regions == {1, 2}
Ages    == {1, 2}
Cells   == Regions \X Ages

ProbScale   == 100
WeightScale == 100
AlphaScale  == 10000

(* ------------------------------ bounds -------------------------------- *)
MaxHorizon == 5      \* largest horizon (weeks) a run is started with
MaxDraw    == 1      \* largest value a Poisson draw takes in one cell
MaxRuns    == 2      \* init()/run() pairs performed on one process object

(* ------------------------- configuration (config) --------------------- *)
periods_per_day        == 3
R0                     == 24    \* 2.4
efficacy_pct           == 90    \* 0.9
latent_period          == 1
presymptomatic_period  == 1
postsymptomatic_period == 2
recovery_period        == presymptomatic_period + postsymptomatic_period
proportion_symptomatic_infections == 6    \* 0.6, in tenths
presymptomatic_infectiousness     == 12   \* 1.2, in tenths
asymptomatic_infectiousness       == 5    \* 0.5, in tenths
initial_contact_weights == <<30, 25, 15, 30>>       \* home, school, work, public
initial_alphas          == <<10000, 10000, 10000>>  \* E2, A, I
initial_flow_scale      == 10                       \* 1.0

\* fatality probability of the symptomatic, per age group, in hundredths
fatality_rate_symptomatic == [a \in Ages |-> IF a = 1 THEN 1 ELSE 40]
\* commuting scale per age group, in tenths
age_group_flow_scaling    == [a \in Ages |-> IF a = 1 THEN 5 ELSE 10]
\* commuters[0]: visitors per region; commuters[1]: commuters between regions
visitors     == [r \in Regions |-> IF r = 1 THEN 4 ELSE 2]
commuter_mat == [r \in Regions |-> [j \in Regions |-> IF r = j THEN 0 ELSE 3]]
\* baseline contact matrices home, school, work, public (age x age)
contact_matrices ==
  << [a \in Ages |-> [b \in Ages |-> IF a = b THEN 2 ELSE 1]],
     [a \in Ages |-> [b \in Ages |-> IF a = 1 /\ b = 1 THEN 4 ELSE 0]],
     [a \in Ages |-> [b \in Ages |-> IF a = 2 /\ b = 2 THEN 2 ELSE 1]],
     [a \in Ages |-> [b \in Ages |-> 1]] >>

(* ------------------------------ helpers ------------------------------- *)
RECURSIVE SumOver(_, _)
SumOver(f, D) ==
  IF D = {} THEN 0
  ELSE LET x == CHOOSE y \in D : TRUE IN f[x] + SumOver(f, D \ {x})

SumCells(f) == SumOver(f, Cells)

Min(a, b) == IF a <= b THEN a ELSE b
Max(a, b) == IF a >= b THEN a ELSE b

\* np.clip(x, lo, hi)
Clip(x, lo, hi) == Min(Max(x, lo), hi)

Zeros == [c \in Cells |-> 0]


(* ------------------- SEAIR.simulate: one sub-period ------------------- *)
CompartmentNames == {"S", "E1", "E2", "A", "I", "R", "D", "V"}

\* state.get_compartments_values()
Compartments(st) ==
  [S |-> st.S, E1 |-> st.E1, E2 |-> st.E2, A |-> st.A,
   I |-> st.I, R |-> st.R, D |-> st.D, V |-> st.V]

\* R_eff = information['R'] if use_waves else R0
REff(use_waves, information) == IF use_waves THEN information.R ELSE R0

\* generate_weighted_contact_matrix(contact_matrices, weights)
generate_weighted_contact_matrix(matrices, weights) ==
  [a \in Ages |-> [b \in Ages |->
     weights[1] * matrices[1][a][b] + weights[2] * matrices[2][a][b]
   + weights[3] * matrices[3][a][b] + weights[4] * matrices[4][a][b]]]

\* decision/decision_period, the doses offered to a cell in one sub-period
DosePerSubPeriod(decision, decision_period) ==
  [c \in Cells |-> decision[c] \div decision_period]

\* new_V = np.nan_to_num(np.minimum(S, decision/decision_period))
NewV(loc, decision, decision_period) ==
  [c \in Cells |-> Min(loc.S[c], DosePerSubPeriod(decision, decision_period)[c])]

\* unused_V = np.sum(new_V - decision/decision_period)
UnusedV(loc, decision, decision_period) ==
  SumCells([c \in Cells |-> NewV(loc, decision, decision_period)[c]
                            - DosePerSubPeriod(decision, decision_period)[c]])

\* successfully_new_V = epsilon * new_V
SuccessfullyNewV(new_V) == [c \in Cells |-> (efficacy_pct * new_V[c]) \div 100]

\* S = S - successfully_new_V; R = R + successfully_new_V; V = V + new_V
Vaccinate(loc, decision, decision_period) ==
  LET new_V == NewV(loc, decision, decision_period)
      succ  == SuccessfullyNewV(new_V)
  IN  [loc EXCEPT !.S = [c \in Cells |-> loc.S[c] - succ[c]],
                  !.R = [c \in Cells |-> loc.R[c] + succ[c]],
                  !.V = [c \in Cells |-> loc.V[c] + new_V[c]]]

\* N = sum([S, E1, E2, A, I, R])
LivePopulation(loc) ==
  [c \in Cells |-> loc.S[c] + loc.E1[c] + loc.E2[c] + loc.A[c] + loc.I[c] + loc.R[c]]

\* state.date.weekday(): day number 0 is a Monday
Weekday(date) == date % 7

\* Timestep counted from the start of the period, whatever its weekday
Timestep_FromMonday(date, i, decision_period) ==
  i % decision_period

\* timestep = (state.date.weekday() * periods_per_day + i) % decision_period
Timestep(date, i, decision_period) ==
  (Weekday(date) * periods_per_day + i) % decision_period

\* working_hours = timestep < periods_per_day*5 and timestep % periods_per_day == 2
WorkingHours(timestep) ==
  timestep < periods_per_day * 5 /\ timestep % periods_per_day = 2

\* lam_j = np.clip(beta * (r_e*E2 + r_a*A + I)/visitors, 0, 1), in 1/ProbScale
LamJ(loc, R_eff) ==
  [c \in Cells |->
     Clip((ProbScale * R_eff * ( presymptomatic_infectiousness * loc.E2[c]
                               + asymptomatic_infectiousness * loc.A[c]
                               + 10 * loc.I[c] ))
            \div (10 * 10 * recovery_period * visitors[c[1]]),
          0, ProbScale)]

\* np.matmul(commuters * age_flow_scaling[a], lam_j[:,a]), numerator of
\* commuter_cases over the denominator CasesDen
CommuterNum(loc, R_eff, flow_scale) ==
  LET lam_j == LamJ(loc, R_eff)
  IN  [c \in Cells |->
         loc.S[c] * SumOver([j \in Regions |->
                       commuter_mat[c[1]][j] * flow_scale
                       * age_group_flow_scaling[c[2]] * lam_j[<<j, c[2]>>]],
                     Regions)]

\* LamI without the upper clip
LamI_Unclipped(loc, R_eff, alphas) ==
  [c \in Cells |->
     Max((R_eff * ( alphas[1] * presymptomatic_infectiousness * loc.E2[c]
                  + alphas[2] * asymptomatic_infectiousness * loc.A[c]
                  + alphas[3] * 10 * loc.I[c] ))
           \div ((10 * 10 * recovery_period * AlphaScale) \div ProbScale),
         0)]

\* lam_i = np.clip(beta * (alphas[0]*r_e*E2 + alphas[1]*r_a*A + alphas[2]*I), 0, 1)
LamI(loc, R_eff, alphas) ==
  [c \in Cells |->
     Clip((R_eff * ( alphas[1] * presymptomatic_infectiousness * loc.E2[c]
                   + alphas[2] * asymptomatic_infectiousness * loc.A[c]
                   + alphas[3] * 10 * loc.I[c] ))
            \div ((10 * 10 * recovery_period * AlphaScale) \div ProbScale),
          0, ProbScale)]

\* np.matmul(lam_i, C), in units of 1/(ProbScale*WeightScale)
ContactForce(loc, R_eff, alphas, C) ==
  LET lam_i == LamI(loc, R_eff, alphas)
  IN  [c \in Cells |->
         SumOver([a \in Ages |-> lam_i[<<c[1], a>>] * C[a][c[2]]], Ages)]

\* numerator of contact_cases = S/N * np.matmul(lam_i, C) over CasesDen
ContactNum(loc, R_eff, alphas, C) ==
  LET force == ContactForce(loc, R_eff, alphas, C)
  IN  [c \in Cells |-> loc.S[c] * force[c]]

\* common denominator of commuter_cases and contact_cases
CasesDen(loc) == [c \in Cells |-> LivePopulation(loc)[c] * ProbScale * WeightScale]

\* NewE1 with a lower bound of one exposure per cell
NewE1_AtLeastOne(loc, cases) == [c \in Cells |-> Min(Max(cases[c], 1), loc.S[c])]

\* new_E1 = np.clip(contact_cases + commuter_cases, None, S)
NewE1(loc, cases) == [c \in Cells |-> Min(cases[c], loc.S[c])]

\* the transition values computed from the compartments (lines 119-124)
NewE2(loc) == [c \in Cells |-> (loc.E1[c] * proportion_symptomatic_infections)
                                 \div (10 * latent_period * periods_per_day)]
NewA(loc)  == [c \in Cells |-> (loc.E1[c] * (10 - proportion_symptomatic_infections))
                                 \div (10 * latent_period * periods_per_day)]
NewI(loc)  == [c \in Cells |-> loc.E2[c] \div (presymptomatic_period * periods_per_day)]
NewRA(loc) == [c \in Cells |-> loc.A[c] \div (recovery_period * periods_per_day)]
NewRI(loc) == [c \in Cells |-> (loc.I[c] * (100 - fatality_rate_symptomatic[c[2]]))
                                 \div (100 * postsymptomatic_period * periods_per_day)]
NewD(loc)  == [c \in Cells |-> (loc.I[c] * fatality_rate_symptomatic[c[2]])
                                 \div (100 * postsymptomatic_period * periods_per_day)]

\* Flow with the deaths taken out of I but not added to D
Flow_DeathsLost(loc, new_E1) ==
  [S  |-> [c \in Cells |-> loc.S[c] - new_E1[c]],
   E1 |-> [c \in Cells |-> loc.E1[c] + new_E1[c] - NewE2(loc)[c] - NewA(loc)[c]],
   E2 |-> [c \in Cells |-> loc.E2[c] + NewE2(loc)[c] - NewI(loc)[c]],
   A  |-> [c \in Cells |-> loc.A[c] + NewA(loc)[c] - NewRA(loc)[c]],
   I  |-> [c \in Cells |-> loc.I[c] + NewI(loc)[c] - NewRI(loc)[c] - NewD(loc)[c]],
   R  |-> [c \in Cells |-> loc.R[c] + NewRI(loc)[c] + NewRA(loc)[c]],
   D  |-> loc.D,
   V  |-> loc.V]

\* calculate values for each compartment (lines 127-133)
Flow(loc, new_E1) ==
  [S  |-> [c \in Cells |-> loc.S[c] - new_E1[c]],
   E1 |-> [c \in Cells |-> loc.E1[c] + new_E1[c] - NewE2(loc)[c] - NewA(loc)[c]],
   E2 |-> [c \in Cells |-> loc.E2[c] + NewE2(loc)[c] - NewI(loc)[c]],
   A  |-> [c \in Cells |-> loc.A[c] + NewA(loc)[c] - NewRA(loc)[c]],
   I  |-> [c \in Cells |-> loc.I[c] + NewI(loc)[c] - NewRI(loc)[c] - NewD(loc)[c]],
   R  |-> [c \in Cells |-> loc.R[c] + NewRI(loc)[c] + NewRA(loc)[c]],
   D  |-> [c \in Cells |-> loc.D[c] + NewD(loc)[c]],
   V  |-> loc.V]

\* SaveNewInfected keeping only the last sub-period
SaveNewInfected_Overwrite(total, loc) == NewI(loc)

\* total_new_infected[i] = new_I, later summed over axis 0
SaveNewInfected(total, loc) == [c \in Cells |-> total[c] + NewI(loc)[c]]
\* total_new_deaths[i] = new_D, later summed over axis 0
SaveNewDeaths(total, loc)   == [c \in Cells |-> total[c] + NewD(loc)[c]]

\* np.random.poisson(lam) for one cell whose rate has numerator num:
\* a negative rate raises ValueError, a zero rate yields 0
PoissonSupport(num) == IF num > 0 THEN 0..MaxDraw ELSE {0}
PoissonRaises(nums) == \E c \in Cells : nums[c] < 0
PoissonDraws(nums) ==
  { d \in [Cells -> 0..MaxDraw] : \A c \in Cells : d[c] \in PoissonSupport(nums[c]) }


(* ----------------------- State and its transition --------------------- *)
NoYll == -1     \* yll not computed yet

\* deaths_per_age = np.sum(state.D, axis=0); utils.get_yll(age_bins, labels, deaths_per_age)
RemainingYears == [a \in Ages |-> IF a = 1 THEN 50 ELSE 10]
get_yll(D) ==
  SumOver([a \in Ages |-> RemainingYears[a]
             * SumOver([r \in Regions |-> D[<<r, a>>]], Regions)], Ages)

\* the sum S+E1+E2+A+I+R+D of one cell
CellTotal(x, c) == x.S[c] + x.E1[c] + x.E2[c] + x.A[c] + x.I[c] + x.R[c] + x.D[c]

\* State.get_transition: packages what simulate returned into a new State
get_transition(st, dec, info, res, decision_period) ==
  [S |-> res.S, E1 |-> res.E1, E2 |-> res.E2, A |-> res.A,
   I |-> res.I, R |-> res.R, D |-> res.D, V |-> res.V,
   vaccines_available |-> st.vaccines_available - SumCells(dec) + info.vaccine_supply,
   time_step       |-> st.time_step + 1,
   date            |-> st.date + decision_period \div periods_per_day,
   contact_weights |-> info.contact_weights,
   alphas          |-> info.alphas,
   flow_scale      |-> info.flow_scale,
   new_infected    |-> res.total_new_infected,
   new_deaths      |-> res.total_new_deaths,
   total_infected  |-> [c \in Cells |-> st.total_infected[c] + res.total_new_infected[c]],
   wave_state      |-> info.wave_state,
   wave_count      |-> IF info.wave_state = st.wave_state THEN st.wave_count
                       ELSE [st.wave_count EXCEPT ![info.wave_state] = @ + 1],
   strategy_count  |-> st.strategy_count,
   yll             |-> NoYll]

(* ------------------------ vaccine allocation policy ------------------- *)
Policies == {"no_vaccines", "susceptible_based", "infection_based"}

\* policy.get_decision(state, vaccines_available, weights)
get_decision(policy, st, vaccines_available) ==
  LET supply == Max(vaccines_available, 0)
      sumS   == SumCells(st.S)
      sumE1  == SumCells(st.E1)
  IN  CASE policy = "susceptible_based" /\ sumS > 0 ->
             [c \in Cells |-> Max(0, Min(st.S[c], (supply * st.S[c]) \div sumS))]
        [] policy = "infection_based" /\ sumE1 > 0 ->
             [c \in Cells |-> Max(0, (supply * st.E1[c]) \div sumE1)]
        [] OTHER -> Zeros

(* ------------------------ exogenous information ----------------------- *)
\* utils.get_wave_timeline(horizon, decision_period, periods_per_day)
WaveStates == <<"U", "D", "N">>
WaveR      == <<30, 8, 12>>
get_wave_timeline(horizon) ==
  [w \in 1..horizon |-> WaveR[((w - 1) % 3) + 1]]
get_wave_state_timeline(horizon) ==
  [w \in 1..horizon |-> WaveStates[((w - 1) % 3) + 1]]

\* historic_data: vaccine_supply_new per dated record (day number |-> doses)
historic_data == (1 :> 21) @@ (3 :> 40) @@ (8 :> 30) @@ (15 :> 11)

\* SupplyWindow with the State's own date inside the window
SupplyWindow_FromToday(date, decision_period) ==
  { d \in DOMAIN historic_data :
      d >= date /\ d <= date + decision_period \div periods_per_day }

\* mask = (date > today) & (date <= end_of_decision_period): the dates of
\* week_data
SupplyWindow(date, decision_period) ==
  { d \in DOMAIN historic_data :
      d > date /\ d <= date + decision_period \div periods_per_day }

\* int(week_data['vaccine_supply_new'].sum()/2), np.zeros(...) when empty
VaccineSupply(date, decision_period) ==
  LET days == SupplyWindow(date, decision_period)
  IN  IF days = {} THEN 0
      ELSE SumOver(historic_data, days) \div 2

\* the frozen surrogates: scalers[category].transform, models[category].predict
Categories == {"home", "school", "work", "public", "alpha", "movement"}
Predict(model, category, features) ==
  IF model.kind = "const" \/ features.cases_past_week > features.cases_2w_ago
  THEN model[category] ELSE 0

\* the 7 features per 100k inhabitants (lines 139-150)
Per100k(x, population) == (x * 100000) \div SumCells(population)
Features(pth, st_ix, population) ==
  [active_cases            |-> Per100k(SumCells(pth[st_ix].I), population),
   cumulative_total_cases  |-> Per100k(SumCells(pth[st_ix].total_infected), population),
   cases_past_week         |-> Per100k(SumCells(pth[st_ix].new_infected), population),
   cases_2w_ago            |-> Per100k(SumCells(pth[Len(pth) - 1].new_infected), population),
   cumulative_total_deaths |-> Per100k(SumCells(pth[st_ix].D), population),
   deaths_past_week        |-> Per100k(SumCells(pth[st_ix].new_deaths), population),
   deaths_2w_ago           |-> Per100k(SumCells(pth[Len(pth) - 1].new_deaths), population)]

\* PastColdStart one period early
PastColdStart_Early(pth) == Len(pth) > 2

\* if len(self.path) > 3
PastColdStart(pth) == Len(pth) > 3

\* cw_mapper (lines 155-166)
MappedContactWeights(model, features) ==
  << initial_contact_weights[1] + 10 * Predict(model, "home", features),
     initial_contact_weights[2] - 30 * Predict(model, "school", features),
     initial_contact_weights[3] - 30 * Predict(model, "work", features),
     initial_contact_weights[4] - 20 * Predict(model, "public", features) >>

\* measure = min(max(models['alpha'].predict(input)[0], 1), 100)
AlphaMeasure(model, features) == Min(Max(Predict(model, "alpha", features), 1), 100)

\* alpha_mapper (lines 169-179)
MappedAlphas(model, features) ==
  LET x == AlphaMeasure(model, features)
  IN  << (initial_alphas[1] * (10000 - x)) \div 10000,
         (initial_alphas[2] * (10000 - x)) \div 10000,
         (initial_alphas[3] * (10000 - 40 * x)) \div 10000 >>

\* new_flow_scale = initial_flow_scale - 0.1 * measure
MappedFlowScale(model, features) ==
  initial_flow_scale - Predict(model, "movement", features)

\* _map_infection_to_response_measures(previous_cw, previous_alphas, previous_flow_scale)
MapInfectionToResponseMeasures(model, pth, st_ix, population, prev) ==
  IF PastColdStart(pth)
  THEN LET features == Features(pth, st_ix, population)
       IN  [contact_weights |-> MappedContactWeights(model, features),
            alphas          |-> MappedAlphas(model, features),
            flow_scale      |-> MappedFlowScale(model, features)]
  ELSE prev

\* check_stop_criteria without the test for active infection
check_stop_criteria_RecoveredOnly(st, population) ==
  IF 10 * SumCells(st.R) > 7 * SumCells(population) THEN "recovered" ELSE "none"

\* check_stop_criteria: which criterion, if any, is reached
check_stop_criteria(st, population) ==
  IF 10 * SumCells(st.R) > 7 * SumCells(population) THEN "recovered"
  ELSE IF 10 * (SumCells(st.E1) + SumCells(st.E2) + SumCells(st.A) + SumCells(st.I)) < 1
       THEN "no_infection"
       ELSE "none"


(* ------------------------------ inputs -------------------------------- *)
\* a (regions x age groups) array from its four entries, row by row
Arr(t) == [c \in Cells |-> t[2 * (c[1] - 1) + c[2]]]

MkState(S, E1, E2, A, I, R, D, V, vaccines_available, time_step, date) ==
  [S |-> Arr(S), E1 |-> Arr(E1), E2 |-> Arr(E2), A |-> Arr(A),
   I |-> Arr(I), R |-> Arr(R), D |-> Arr(D), V |-> Arr(V),
   vaccines_available |-> vaccines_available,
   time_step       |-> time_step,
   date            |-> date,
   contact_weights |-> initial_contact_weights,
   alphas          |-> initial_alphas,
   flow_scale      |-> initial_flow_scale,
   new_infected    |-> Zeros,
   new_deaths      |-> Zeros,
   total_infected  |-> Arr(I),
   wave_state      |-> "U",
   wave_count      |-> [U |-> 1, D |-> 0, N |-> 0],
   strategy_count  |-> << >>,
   yll             |-> NoYll]

Z4 == <<0, 0, 0, 0>>
\* freshly seeded epidemic
StSeeded == MkState(<<40, 40, 30, 30>>, <<10, 5, 0, 0>>, Z4, Z4, Z4, Z4, Z4, Z4, 30, 0, 0)
\* epidemic under way, few susceptibles left in some cells
StMid == MkState(<<3, 12, 0, 20>>, <<6, 3, 0, 5>>, <<6, 6, 3, 0>>, <<9, 0, 9, 0>>,
                 <<12, 18, 6, 16>>, <<10, 10, 12, 5>>, <<0, 1, 0, 0>>, <<2, 0, 0, 0>>, 40, 1, 5)
\* more than 70 % recovered
StRecovered == MkState(<<5, 5, 5, 5>>, Z4, Z4, Z4, <<2, 2, 2, 2>>, <<40, 40, 40, 40>>,
                       Z4, Z4, 10, 0, 0)
\* no infection at all
StClean == MkState(<<30, 30, 30, 30>>, Z4, Z4, Z4, Z4, Z4, Z4, Z4, 60, 0, 2)
\* close to the recovered threshold, vaccination can cross it
StNear == MkState(<<20, 20, 20, 20>>, <<3, 0, 0, 0>>, Z4, Z4, <<3, 3, 0, 0>>,
                  <<35, 35, 40, 40>>, Z4, Z4, 80, 0, 0)
\* a handful of susceptibles among many infectious
StFew == MkState(<<1, 0, 1, 0>>, <<0, 3, 0, 0>>, <<6, 0, 3, 0>>, <<0, 9, 0, 0>>,
                 <<12, 6, 6, 12>>, <<2, 2, 2, 2>>, Z4, Z4, 6, 0, 1)

InitialStates == {StSeeded, StMid, StRecovered, StClean, StNear}

\* frozen response-measure surrogates
ModelNone  == [kind |-> "const", home |-> 0, school |-> 0, work |-> 0,
               public |-> 0, alpha |-> 0, movement |-> 0]
ModelHard  == [kind |-> "const", home |-> 3, school |-> 3, work |-> 3,
               public |-> 2, alpha |-> 150, movement |-> 2]
ModelTrend == [kind |-> "trend", home |-> 1, school |-> 1, work |-> 1,
               public |-> 1, alpha |-> 50, movement |-> 12]
Surrogates == {ModelNone, ModelHard, ModelTrend}

Population(st) == [c \in Cells |-> CellTotal(st, c)]

Scenario(stochastic, include_flow, use_waves, use_response_measures, model, policy, horizon, decision_period, st) ==
  [inputs |-> [stochastic |-> stochastic, include_flow |-> include_flow,
               use_waves |-> use_waves,
               use_response_measures |-> use_response_measures,
               response_measure_model |-> model, policy |-> policy,
               horizon |-> horizon, decision_period |-> decision_period,
               population |-> Population(st)],
   initial_state |-> st]

\* deterministic runs, one day per decision period
ScenariosCore ==
  { Scenario(FALSE, f, w, FALSE, ModelNone, p, MaxHorizon, periods_per_day, s) :
      f \in BOOLEAN, w \in BOOLEAN, p \in Policies, s \in InitialStates }
\* response measures enabled
ScenariosResponse ==
  { Scenario(FALSE, TRUE, w, TRUE, m, p, h, periods_per_day, s) :
      w \in BOOLEAN, m \in Surrogates, p \in {"no_vaccines", "susceptible_based"},
      h \in {1, MaxHorizon}, s \in {StSeeded, StMid} }
\* stochastic transmission; four periods: three of cold start and one in
\* which the mapped response measures are applied
ScenariosStochastic ==
  { Scenario(TRUE, f, FALSE, r, ModelHard, "infection_based", 4,
             periods_per_day, s) :
      f \in BOOLEAN, r \in BOOLEAN, s \in {StFew, StClean} }
\* one week per decision period
ScenariosWeekly ==
  { Scenario(FALSE, TRUE, FALSE, FALSE, ModelNone, "susceptible_based", 2,
             7 * periods_per_day, s) : s \in {StSeeded, StMid} }
  \cup
  { Scenario(FALSE, TRUE, FALSE, TRUE, m, "no_vaccines", MaxHorizon - 1,
             7 * periods_per_day, StSeeded) : m \in {ModelHard, ModelTrend} }
\* a policy argument that is none of the strategies (MarkovDecisionProcess
\* stores whatever it is given)
UnknownPolicy == "unknown_policy"
ScenariosUnknownPolicy ==
  { Scenario(FALSE, TRUE, FALSE, FALSE, ModelNone, UnknownPolicy, 2,
             periods_per_day, s) : s \in {StSeeded, StClean} }
\* one week per decision period, started on each day of the week
ScenariosWeekdays ==
  { Scenario(FALSE, TRUE, FALSE, FALSE, ModelNone, "no_vaccines", 1,
             7 * periods_per_day, [StSeeded EXCEPT !.date = d]) : d \in 0..6 }

Scenarios ==
  ScenariosCore \cup ScenariosResponse \cup ScenariosStochastic \cup ScenariosWeekly
  \cup ScenariosUnknownPolicy \cup ScenariosWeekdays

(* ------------------------------- state -------------------------------- *)
VARIABLES
  inputs,               \* the constructor arguments of the process and of SEAIR
  initial_state,        \* self.initial_state, the same object as path[1]
  path,                 \* self.path
  state,                \* self.state, as the position of that object in path
  wave_timeline,        \* self.wave_timeline
  wave_state_timeline,  \* self.wave_state_timeline
  pc,                   \* where the control is
  week,                 \* the loop variable of run()
  decision,             \* the decision of the current period
  information,          \* the exogenous information of the current period
  sim,                  \* the locals of simulate
  obs,                  \* what the last sub-period computed (observation only)
  stop_reason,          \* why run() left its loop
  run_no,               \* number of init() calls so far
  periods,              \* update_state calls completed in this run
  first_path,           \* the path as it was when the first run finished
  rng_log,              \* draws of the first run: argument and value
  rng_pos,              \* draws made in this run
  rng_sync              \* this run's draws have had the first run's arguments

vars == <<inputs, initial_state, path, state, wave_timeline, wave_state_timeline,
          pc, week, decision, information, sim, obs, stop_reason, run_no,
          periods, first_path, rng_log, rng_pos, rng_sync>>

NoInformation ==
  [vaccine_supply |-> 0, R |-> 0, wave_state |-> "U",
   contact_weights |-> <<0, 0, 0, 0>>, alphas |-> <<0, 0, 0>>, flow_scale |-> 0]

NoSim ==
  [i |-> 0, S |-> Zeros, E1 |-> Zeros, E2 |-> Zeros, A |-> Zeros, I |-> Zeros,
   R |-> Zeros, D |-> Zeros, V |-> Zeros,
   total_new_infected |-> Zeros, total_new_deaths |-> Zeros]

NoObs ==
  [lam_j |-> Zeros, lam_i |-> Zeros, force |-> Zeros, commuting |-> FALSE,
   new_V |-> Zeros, offered |-> Zeros, new_E1 |-> Zeros, new_E1_total |-> 0,
   new_I_total |-> Zeros, E2_negative |-> [c \in Cells |-> FALSE],
   commuter |-> Zeros, commuting_count |-> 0]

Init ==
  /\ \E sc \in Scenarios : inputs = sc.inputs /\ initial_state = sc.initial_state
  /\ path = << >>
  /\ state = 0
  /\ wave_timeline = << >>
  /\ wave_state_timeline = << >>
  /\ pc = "constructed"
  /\ week = 0
  /\ decision = Zeros
  /\ information = NoInformation
  /\ sim = NoSim
  /\ obs = NoObs
  /\ stop_reason = "none"
  /\ run_no = 0
  /\ periods = 0
  /\ first_path = << >>
  /\ rng_log = << >>
  /\ rng_pos = 0
  /\ rng_sync = TRUE


(* ------------------------------ actions ------------------------------- *)
\* a write to a field of the State object at position ix of the path; the
\* object at position 1 is self.initial_state
WriteState(ix, st) ==
  /\ path' = [path EXCEPT ![ix] = st]
  /\ initial_state' = IF ix = 1 THEN st ELSE initial_state

\* np.random.seed(seed) followed by MarkovDecisionProcess.init()
MdpInit ==
  /\ pc \in {"constructed", "done"}
  /\ run_no < MaxRuns
  /\ LET reset == [initial_state EXCEPT !.wave_state = "U",
                                        !.wave_count = [U |-> 1, D |-> 0, N |-> 0],
                                        !.strategy_count = << >>]
     IN  /\ initial_state' = reset
         /\ path' = <<reset>>
  /\ state' = 1
  /\ wave_timeline' = get_wave_timeline(inputs.horizon)
  /\ wave_state_timeline' = get_wave_state_timeline(inputs.horizon)
  /\ run_no' = run_no + 1
  /\ periods' = 0
  /\ stop_reason' = "none"
  /\ rng_pos' = 0
  /\ rng_sync' = TRUE
  /\ pc' = "run"
  /\ UNCHANGED <<inputs, week, decision, information, sim, obs, first_path, rng_log>>

\* run(): run_range = range(self.state.time_step, self.horizon)
RunBegin ==
  /\ pc = "run"
  /\ week' = path[state].time_step
  /\ pc' = "loop"
  /\ UNCHANGED <<inputs, initial_state, path, state, wave_timeline, wave_state_timeline,
                 decision, information, sim, obs, stop_reason, run_no, periods,
                 first_path, rng_log, rng_pos, rng_sync>>

LoopFrame ==
  UNCHANGED <<inputs, initial_state, path, state, wave_timeline, wave_state_timeline,
              week, decision, information, sim, obs, run_no, periods,
              first_path, rng_log, rng_pos, rng_sync>>

\* the range of the for loop is exhausted
RunExhausted ==
  /\ pc = "loop"
  /\ week >= inputs.horizon
  /\ stop_reason' = "horizon"
  /\ pc' = "finish"
  /\ LoopFrame

\* if self.check_stop_criteria(week): break
RunBreak ==
  /\ pc = "loop"
  /\ week < inputs.horizon
  /\ check_stop_criteria(path[state], inputs.population) # "none"
  /\ stop_reason' = check_stop_criteria(path[state], inputs.population)
  /\ pc' = "finish"
  /\ LoopFrame

\* no criterion holds: self.update_state(weighted_policy_weights, week)
RunContinue ==
  /\ pc = "loop"
  /\ week < inputs.horizon
  /\ check_stop_criteria(path[state], inputs.population) = "none"
  /\ pc' = "policy"
  /\ UNCHANGED stop_reason
  /\ LoopFrame

\* decision = self.policy.get_decision(self.state, self.state.vaccines_available, ...)
GetDecision ==
  /\ pc = "policy"
  /\ inputs.policy \in Policies
  /\ decision' = get_decision(inputs.policy, path[state], path[state].vaccines_available)
  /\ pc' = "info"
  /\ UNCHANGED <<inputs, initial_state, path, state, wave_timeline, wave_state_timeline,
                 week, information, sim, obs, stop_reason, run_no, periods,
                 first_path, rng_log, rng_pos, rng_sync>>

\* self.policy is not a policy object: the attribute lookup of get_decision
\* raises AttributeError and run() is aborted
GetDecisionRaises ==
  /\ pc = "policy"
  /\ inputs.policy \notin Policies
  /\ pc' = "error"
  /\ UNCHANGED <<inputs, initial_state, path, state, wave_timeline, wave_state_timeline,
                 week, decision, information, sim, obs, stop_reason, run_no, periods,
                 first_path, rng_log, rng_pos, rng_sync>>

\* information = self.get_exogenous_information(self.state, week)
get_exogenous_information(pth, st_ix, wk) ==
  LET st     == pth[st_ix]
      prev   == [contact_weights |-> st.contact_weights, alphas |-> st.alphas,
                 flow_scale |-> st.flow_scale]
      fixed  == [contact_weights |-> initial_contact_weights,
                 alphas |-> initial_alphas, flow_scale |-> initial_flow_scale]
      params == IF inputs.use_response_measures
                THEN MapInfectionToResponseMeasures(inputs.response_measure_model,
                                                    pth, st_ix, inputs.population, prev)
                ELSE fixed
  IN  [vaccine_supply  |-> VaccineSupply(st.date, inputs.decision_period),
       R               |-> wave_timeline[wk + 1],
       wave_state      |-> wave_state_timeline[wk + 1],
       contact_weights |-> params.contact_weights,
       alphas          |-> params.alphas,
       flow_scale      |-> params.flow_scale]

GetExogenousInformation ==
  /\ pc = "info"
  /\ information' = get_exogenous_information(path, state, week)
  /\ pc' = "simulate"
  /\ UNCHANGED <<inputs, initial_state, path, state, wave_timeline, wave_state_timeline,
                 week, decision, sim, obs, stop_reason, run_no, periods,
                 first_path, rng_log, rng_pos, rng_sync>>

\* simulate is entered: the compartments are read from the state (lines 52-82)
SimulateEnter ==
  /\ pc = "simulate"
  /\ sim' = [i |-> 0, total_new_infected |-> Zeros, total_new_deaths |-> Zeros]
            @@ Compartments(path[state])
  /\ obs' = NoObs
  /\ pc' = "vaccinate"
  /\ UNCHANGED <<inputs, initial_state, path, state, wave_timeline, wave_state_timeline,
                 week, decision, information, stop_reason, run_no, periods,
                 first_path, rng_log, rng_pos, rng_sync>>

\* the vaccination step of sub-period i (lines 88-96)
SimVaccinate ==
  /\ pc = "vaccinate"
  /\ LET loc == Vaccinate(sim, decision, inputs.decision_period)
     IN  sim' = [sim EXCEPT !.S = loc.S, !.R = loc.R, !.V = loc.V]
  /\ WriteState(state, [path[state] EXCEPT !.vaccines_available =
                          @ + UnusedV(sim, decision, inputs.decision_period)])
  /\ obs' = [obs EXCEPT !.new_V = NewV(sim, decision, inputs.decision_period),
                        !.offered = DosePerSubPeriod(decision, inputs.decision_period)]
  /\ pc' = "flow"
  /\ UNCHANGED <<inputs, state, wave_timeline, wave_state_timeline, week, decision,
                 information, stop_reason, run_no, periods, first_path,
                 rng_log, rng_pos, rng_sync>>

\* the quantities of the flow step of sub-period i (lines 98-115)
Commuting == 
  /\ inputs.include_flow
  /\ WorkingHours(Timestep(path[state].date, sim.i, inputs.decision_period))
CommuterRate ==
  IF Commuting
  THEN CommuterNum(sim, REff(inputs.use_waves, information), information.flow_scale)
  ELSE Zeros
ContactMatrix ==
  generate_weighted_contact_matrix(contact_matrices, information.contact_weights)
ContactRate ==
  ContactNum(sim, REff(inputs.use_waves, information), information.alphas, ContactMatrix)

\* the draw number k of this run, with the same seed as the first run
Replayed(sync, k, arg) ==
  run_no > 1 /\ sync /\ k <= Len(rng_log) /\ rng_log[k].arg = arg
Draw(sync, k, arg, nums) ==
  IF Replayed(sync, k, arg) THEN {rng_log[k].val} ELSE PoissonDraws(nums)
InSync(sync, k, arg) == sync /\ (run_no = 1 \/ Replayed(sync, k, arg))

\* lines 117-137 with the exposures cases, then the next sub-period
FlowStep(cases) ==
  LET new_E1 == NewE1(sim, cases)
      loc    == Flow(sim, new_E1)
      R_eff  == REff(inputs.use_waves, information)
  IN  /\ sim' = [i |-> sim.i + 1,
                 total_new_infected |-> SaveNewInfected(sim.total_new_infected, sim),
                 total_new_deaths   |-> SaveNewDeaths(sim.total_new_deaths, sim)] @@ loc
      /\ obs' = [obs EXCEPT !.lam_j = IF Commuting THEN LamJ(sim, R_eff) ELSE Zeros,
                            !.lam_i = LamI(sim, R_eff, information.alphas),
                            !.force = ContactForce(sim, R_eff, information.alphas,
                                                   ContactMatrix),
                            !.commuting = Commuting,
                            !.commuter = CommuterRate,
                            !.commuting_count = @ + (IF Commuting THEN 1 ELSE 0),
                            !.new_E1 = new_E1,
                            !.new_E1_total = @ + SumCells(new_E1),
                            !.new_I_total = [c \in Cells |-> @[c] + NewI(sim)[c]],
                            !.E2_negative = [c \in Cells |-> @[c] \/ sim.E2[c] < 0]]
      /\ pc' = IF sim.i + 1 = inputs.decision_period THEN "transition" ELSE "vaccinate"

SimFrame ==
  UNCHANGED <<inputs, initial_state, path, state, wave_timeline, wave_state_timeline,
              week, decision, information, stop_reason, run_no, periods, first_path>>

\* the flow step in deterministic mode
SimFlowDeterministic ==
  /\ pc = "flow"
  /\ ~inputs.stochastic
  /\ FlowStep([c \in Cells |-> (ContactRate[c] + CommuterRate[c]) \div CasesDen(sim)[c]])
  /\ UNCHANGED <<rng_log, rng_pos, rng_sync>>
  /\ SimFrame

\* the flow step in stochastic mode: np.random.poisson of both exposures
SimFlowStochastic ==
  /\ pc = "flow"
  /\ inputs.stochastic
  /\ ~PoissonRaises(CommuterRate)
  /\ ~PoissonRaises(ContactRate)
  /\ LET den  == CasesDen(sim)
         arg1 == <<CommuterRate, den>>
         arg2 == <<ContactRate, den>>
         k1   == rng_pos + 1
         k2   == IF Commuting THEN rng_pos + 2 ELSE rng_pos + 1
         s1   == IF Commuting THEN InSync(rng_sync, k1, arg1) ELSE rng_sync
     IN  \E d1 \in (IF Commuting THEN Draw(rng_sync, k1, arg1, CommuterRate) ELSE {Zeros}) :
         \E d2 \in Draw(s1, k2, arg2, ContactRate) :
           /\ FlowStep([c \in Cells |-> d2[c] + d1[c]])
           /\ rng_pos' = k2
           /\ rng_sync' = InSync(s1, k2, arg2)
           /\ rng_log' = IF run_no > 1 THEN rng_log
                         ELSE IF Commuting
                              THEN rng_log \o <<[arg |-> arg1, val |-> d1],
                                                [arg |-> arg2, val |-> d2]>>
                              ELSE Append(rng_log, [arg |-> arg2, val |-> d2])
  /\ SimFrame

\* np.random.poisson raises ValueError on a negative rate: run() is aborted
SimFlowRaises ==
  /\ pc = "flow"
  /\ inputs.stochastic
  /\ PoissonRaises(CommuterRate) \/ PoissonRaises(ContactRate)
  /\ pc' = "error"
  /\ UNCHANGED <<sim, obs, rng_log, rng_pos, rng_sync>>
  /\ SimFrame

\* Transition appending the new State without making it the current one
Transition_StateNotAdvanced ==
  /\ pc = "transition"
  /\ path' = Append(path, get_transition(path[state], decision, information, sim,
                                         inputs.decision_period))
  /\ state' = state
  /\ week' = week + 1
  /\ periods' = periods + 1
  /\ decision' = Zeros
  /\ information' = NoInformation
  /\ sim' = NoSim
  /\ obs' = NoObs
  /\ pc' = "loop"
  /\ UNCHANGED <<inputs, initial_state, wave_timeline, wave_state_timeline,
                 stop_reason, run_no, first_path, rng_log, rng_pos, rng_sync>>

\* self.state = self.state.get_transition(...); self.path.append(self.state)
Transition ==
  /\ pc = "transition"
  /\ path' = Append(path, get_transition(path[state], decision, information, sim,
                                         inputs.decision_period))
  /\ state' = Len(path) + 1
  /\ week' = week + 1
  /\ periods' = periods + 1
  /\ decision' = Zeros
  /\ information' = NoInformation
  /\ sim' = NoSim
  /\ obs' = NoObs
  /\ pc' = "loop"
  /\ UNCHANGED <<inputs, initial_state, wave_timeline, wave_state_timeline,
                 stop_reason, run_no, first_path, rng_log, rng_pos, rng_sync>>

\* Finish attaching yll to the initial State
Finish_YllOnInitialState ==
  /\ pc = "finish"
  /\ WriteState(1, [path[1] EXCEPT !.yll = get_yll(path[state].D)])
  /\ first_path' = IF run_no = 1 THEN path' ELSE first_path
  /\ pc' = "done"
  /\ UNCHANGED <<inputs, state, wave_timeline, wave_state_timeline, week, decision,
                 information, sim, obs, stop_reason, run_no, periods,
                 rng_log, rng_pos, rng_sync>>

\* after the loop: self.path[-1].yll = utils.get_yll(..., np.sum(self.state.D, axis=0))
Finish ==
  /\ pc = "finish"
  /\ WriteState(Len(path), [path[Len(path)] EXCEPT !.yll = get_yll(path[state].D)])
  /\ first_path' = IF run_no = 1 THEN path' ELSE first_path
  /\ pc' = "done"
  /\ UNCHANGED <<inputs, state, wave_timeline, wave_state_timeline, week, decision,
                 information, sim, obs, stop_reason, run_no, periods,
                 rng_log, rng_pos, rng_sync>>

Next ==
  \/ MdpInit
  \/ RunBegin
  \/ RunExhausted
  \/ RunBreak
  \/ RunContinue
  \/ GetDecision
  \/ GetDecisionRaises
  \/ GetExogenousInformation
  \/ SimulateEnter
  \/ SimVaccinate
  \/ SimFlowDeterministic
  \/ SimFlowStochastic
  \/ SimFlowRaises
  \/ Transition
  \/ Finish

Spec == Init /\ [][Next]_vars

\* run() is not interrupted: every step that can be taken is eventually taken
FairSpec == Spec /\ WF_vars(Next)


(* ------------------------------- claims ------------------------------- *)
InSimulate == pc \in {"vaccinate", "flow", "transition"}

\* C1: in every cell the sum S+E1+E2+A+I+R+D keeps the value it had in the
\* initial State: after every vaccination step and every flow step of
\* simulate, and in every State of the path.
C1_PopulationConserved ==
  /\ \A k \in 1..Len(path) : \A c \in Cells :
       CellTotal(path[k], c) = CellTotal(path[1], c)
  /\ InSimulate => \A c \in Cells : CellTotal(sim, c) = CellTotal(path[1], c)

\* a later State of the path in which vaccination, infection and death
\* have all moved people between compartments
C1_Witness ==
  /\ Len(path) >= 3
  /\ SumCells(path[3].V) > SumCells(path[1].V)
  /\ SumCells(path[3].S) < SumCells(path[1].S)
  /\ SumCells(path[3].new_infected) > 0
  /\ SumCells(path[3].D) > SumCells(path[1].D)

AllNonNegative(x) ==
  \A c \in Cells : /\ x.S[c] >= 0 /\ x.E1[c] >= 0 /\ x.E2[c] >= 0 /\ x.A[c] >= 0
                   /\ x.I[c] >= 0 /\ x.R[c] >= 0 /\ x.D[c] >= 0 /\ x.V[c] >= 0

\* C2: every compartment S, E1, E2, A, I, R, D, V is >= 0 in every cell after
\* every sub-period and in every State of the path, whatever exogenous
\* information the decision process supplies.
C2_NonNegative ==
  /\ \A k \in 1..Len(path) : AllNonNegative(path[k])
  /\ InSimulate => AllNonNegative(sim)


\* doses of the sub-period's allocation that the vaccination step did not
\* administer (allocated minus administered, summed over the cells)
NotAdministered ==
  SumCells([c \in Cells |-> DosePerSubPeriod(decision, inputs.decision_period)[c]
                            - (sim'.V[c] - sim.V[c])])

\* one step of the program, as C3 requires it
C3_UnusedCreditedBack_Step ==
  (InSimulate /\ pc' # "error") =>
    /\ path'[state].vaccines_available >= path[state].vaccines_available
    /\ pc = "vaccinate" =>
         path'[state].vaccines_available - path[state].vaccines_available
           = NotAdministered

\* C3: in every sub-period the amount added to vaccines_available is the part
\* of the sub-period's allocation that was not administered, a quantity >= 0,
\* so vaccines_available never decreases inside simulate.
C3_UnusedCreditedBack == [][C3_UnusedCreditedBack_Step]_vars

\* one step of the program, as C4 requires it
C4_PathAppendOnly_Step ==
  pc \in {"policy", "info", "simulate", "vaccinate", "flow", "transition"} =>
    /\ Len(path') >= Len(path)
    /\ \A k \in 1..Len(path) : path'[k] = path[k]

\* C4: a State that is in the path is not changed by a later policy call,
\* exogenous-information lookup, simulate call or transition, and the path
\* only grows at its end.
C4_PathAppendOnly == [][C4_PathAppendOnly_Step]_vars

\* C5: a second init() and run() on the same process object with the same seed
\* produces the same sequence of States as the first.
C5_RepeatedRunsIdentical ==
  (pc = "done" /\ run_no >= 2) => path = first_path

\* the stop criteria as the claim words them
RecoveredThreshold(st) == 10 * SumCells(st.R) > 7 * SumCells(inputs.population)
NoActiveInfection(st) ==
  10 * SumCells([c \in Cells |-> st.E1[c] + st.E2[c] + st.A[c] + st.I[c]]) < 1

\* one step of the program, as C6 requires it
C6_StopCriteriaHalt_Step ==
  /\ (pc = "loop" /\ week < inputs.horizon) =>
       IF RecoveredThreshold(path[state]) \/ NoActiveInfection(path[state])
       THEN pc' = "finish" /\ path' = path /\ Len(path) = periods + 1
       ELSE pc' = "policy"
  /\ pc = "finish" => (pc' = "done" /\ Len(path') = Len(path))
  /\ pc = "done" => (pc' = "run" \/ Len(path') = Len(path))

\* C6: when a loop iteration starts with recovered > 70 % of the population or
\* with E1+E2+A+I below 0.1, run() leaves the loop at once, with no further
\* policy call, simulate call or append, and the path holds one State per
\* completed period plus the initial one; otherwise the run continues.
C6_StopCriteriaHalt == [][C6_StopCriteriaHalt_Step]_vars

\* a run stopped by the recovered threshold after some periods
C6_Witness ==
  /\ pc = "done"
  /\ stop_reason = "recovered"
  /\ periods >= 1
  /\ Len(path) = periods + 1
  /\ week < inputs.horizon

\* C7: every run() started after init() terminates, after at most
\* horizon - initial time_step transitions, in exactly one of the stopped
\* conditions, and the path never holds more than horizon - initial
\* time_step + 1 States.
C7_Termination ==
  /\ [](pc # "constructed" =>
          /\ periods <= Max(inputs.horizon - path[1].time_step, 0)
          /\ Len(path) <= Max(inputs.horizon - path[1].time_step, 0) + 1)
  /\ [](pc = "done" => stop_reason \in {"recovered", "no_infection", "horizon"})
  /\ (pc = "run") ~> (pc = "done")

Params(x) == <<x.contact_weights, x.alphas, x.flow_scale>>

\* one step of the program, as C10 requires it
C10_ColdStart_Step ==
  inputs.use_response_measures =>
    /\ pc = "info" =>
         IF Len(path) - 1 < 3
         THEN Params(information') = Params(path[state])
         ELSE LET f == Features(path, state, inputs.population)
                  m == inputs.response_measure_model
              IN  Params(information') = << MappedContactWeights(m, f),
                                            MappedAlphas(m, f),
                                            MappedFlowScale(m, f) >>
    /\ (pc = "transition" /\ Len(path) <= 3) =>
         Params(path'[Len(path')]) = Params(path[1])

\* C10: with response measures enabled the mapper returns the previous
\* parameters while fewer than 3 periods are completed and surrogate-derived
\* values from then on; the States of the first periods carry the parameters
\* of the initial State.
C10_ColdStart == [][C10_ColdStart_Step]_vars

\* the fourth period of a run with response measures: the mapper has returned
\* values that differ from the previous ones
C10_Witness ==
  /\ pc = "simulate"
  /\ inputs.use_response_measures
  /\ Len(path) = 4
  /\ Params(information) # Params(path[state])
  /\ Params(path[4]) = Params(path[1])

\* the mapper has produced the parameters of the current period
MapperApplied ==
  /\ pc \in {"simulate", "vaccinate", "flow", "transition"}
  /\ inputs.use_response_measures
  /\ PastColdStart(path)

\* C11: every value the mapper returns after cold start lies within bounds
\* that do not depend on the prediction: no contact weight, alpha or flow
\* scale is negative, and the alphas are those of a measure within [1,100].
C11_MapperOutputsBounded ==
  MapperApplied =>
    /\ \A k \in 1..4 : information.contact_weights[k] >= 0
    /\ information.flow_scale >= 0
    /\ \A k \in 1..2 :
         /\ information.alphas[k] >= (initial_alphas[k] * (10000 - 100)) \div 10000
         /\ information.alphas[k] <= (initial_alphas[k] * (10000 - 1)) \div 10000
    /\ information.alphas[3] >= (initial_alphas[3] * (10000 - 40 * 100)) \div 10000
    /\ information.alphas[3] <= (initial_alphas[3] * (10000 - 40 * 1)) \div 10000

\* the alphas alone: the one clip the mapper has
C11_AlphasBounded ==
  MapperApplied =>
    /\ \A k \in 1..2 :
         /\ information.alphas[k] >= (initial_alphas[k] * (10000 - 100)) \div 10000
         /\ information.alphas[k] <= (initial_alphas[k] * (10000 - 1)) \div 10000
    /\ information.alphas[3] >= (initial_alphas[3] * (10000 - 40 * 100)) \div 10000
    /\ information.alphas[3] <= (initial_alphas[3] * (10000 - 40 * 1)) \div 10000

\* C12: a Decision Process constructed with an unknown policy is rejected at
\* construction: no init() and no run() is performed on it, no State enters
\* its path, and no error surfaces inside the loop.
C12_UnknownPolicyRejected ==
  inputs.policy \notin Policies =>
    /\ run_no = 0
    /\ path = << >>
    /\ pc = "constructed"

\* the three ways in which run() leaves its loop
StoppedConditions == {"recovered", "no_infection", "horizon"}

\* one step of the program, as C13 requires it
C13_YllOnTermination_Step ==
  /\ pc' = "done" =>
       /\ pc = "finish"
       /\ stop_reason' \in StoppedConditions
       /\ Len(path') = Len(path)
       /\ path'[Len(path')].D = path[Len(path)].D
       /\ path'[Len(path')].yll = get_yll(path'[Len(path')].D)
       /\ \A k \in 1..(Len(path) - 1) : path'[k].yll = path[k].yll
  /\ (pc \notin {"constructed", "done", "finish"}) =>
       \A k \in 1..Len(path) : k <= Len(path') /\ path'[k].yll = path[k].yll

\* C13: whenever run() finishes (recovered threshold, no active infection or
\* horizon, with or without a transition) the last State of the path carries
\* the yll computed from its own cumulative deaths, and run() sets yll on no
\* other State of the path.
C13_YllOnTermination == [][C13_YllOnTermination_Step]_vars

\* a finished run of at least two periods with deaths: only the last State
\* carries a yll
C13_Witness ==
  /\ pc = "done"
  /\ periods >= 2
  /\ path[Len(path)].yll > 0
  /\ path[Len(path)].yll = get_yll(path[Len(path)].D)
  /\ \A k \in 1..(Len(path) - 1) : path[k].yll = NoYll

\* one step of the program, as C14 requires it
C14_PeriodOrder_Step ==
  /\ path' # << >> => state' = Len(path')
  /\ pc = "loop" =>
       /\ pc' \in {"policy", "finish"}
       /\ pc' = "policy" <=>
            (week < inputs.horizon
             /\ check_stop_criteria(path[state], inputs.population) = "none")
       /\ decision' = Zeros /\ information' = NoInformation /\ path' = path
  /\ pc = "policy" =>
       /\ pc' \in {"info", "error"}
       /\ information' = NoInformation /\ path' = path
       /\ pc' = "info" =>
            decision' = get_decision(inputs.policy, path[Len(path)],
                                     path[Len(path)].vaccines_available)
  /\ pc = "info" =>
       /\ pc' = "simulate"
       /\ decision' = decision /\ path' = path
       /\ information' = get_exogenous_information(path, Len(path), week)
  /\ pc \in {"simulate", "vaccinate", "flow"} =>
       /\ pc' \in {"vaccinate", "flow", "transition", "error"}
       /\ decision' = decision /\ information' = information
       /\ Len(path') = Len(path)
       /\ pc' = "transition" <=> (pc = "flow" /\ pc' # "error"
                                  /\ sim'.i = inputs.decision_period)
  /\ pc = "transition" =>
       /\ pc' = "loop"
       /\ Len(path') = Len(path) + 1
       /\ \A k \in 1..Len(path) : path'[k] = path[k]
       /\ path'[Len(path')] = get_transition(path[Len(path)], decision, information,
                                             sim, inputs.decision_period)
       /\ periods' = periods + 1
  /\ pc \in {"run", "finish", "error"} => Len(path') = Len(path)

WeeklyPeriod == inputs.decision_period = 7 * periods_per_day

\* sub-period i of a period that starts at date falls on Monday to Friday
\* and is sub-period 2 of its day
MiddayOfWorkday(date, i) ==
  /\ (Weekday(date) + i \div periods_per_day) % 7 \in 0..4
  /\ i % periods_per_day = 2

\* C15: with a decision period of 7 days commuting exposures are computed in
\* sub-period i if and only if include_flow is on, the calendar day of i is
\* Monday to Friday and i is sub-period 2 of its day; exactly 5 sub-periods
\* of the period have them, and the commuting exposure of every other
\* sub-period is 0 (of every sub-period when include_flow is off).
C15_WorkingHours ==
  /\ (pc \in {"vaccinate", "transition"} /\ sim.i >= 1) =>
       /\ WeeklyPeriod =>
            (obs.commuting <=>
               (inputs.include_flow /\ MiddayOfWorkday(path[state].date, sim.i - 1)))
       /\ ~inputs.include_flow => ~obs.commuting
       /\ ~obs.commuting => obs.commuter = Zeros /\ obs.lam_j = Zeros
  /\ (pc = "transition" /\ WeeklyPeriod) =>
       obs.commuting_count = IF inputs.include_flow THEN 5 ELSE 0

\* a week that starts on a Saturday: its last sub-period is Friday mid-day,
\* the fifth with commuting exposures
C15_Witness ==
  /\ pc = "transition"
  /\ WeeklyPeriod
  /\ inputs.include_flow
  /\ Weekday(path[state].date) = 5
  /\ obs.commuting
  /\ obs.commuting_count = 5
  /\ SumCells(obs.commuter) > 0

(* ------------- simulate called with a decision tensor ----------------- *)
\* a decision of shape (decision_period x regions x age groups): numpy
\* broadcasts every array that meets it to that shape, so each compartment
\* gets one copy per slice of the decision ("layer"); the layers evolve side
\* by side, layer k with slice k in every sub-period
SliceA == Arr(<<6, 0, 6, 0>>)
SliceB == Arr(<<0, 6, 0, 6>>)
Tensors(decision_period, vaccines_available) ==
  { t \in [1..decision_period -> {SliceA, SliceB, Zeros}] :
      SumOver([k \in 1..decision_period |-> SumCells(t[k])], 1..decision_period)
        <= vaccines_available }

\* a policy that returns the tensor
TensorPolicy == "tensor_policy"
ScenariosTensor ==
  { Scenario(FALSE, TRUE, FALSE, FALSE, ModelNone, TensorPolicy, 1, dp, st) :
      dp \in {2, 3}, st \in {StSeeded, StMid} }

Layers == 1..inputs.decision_period

\* simulate has been entered with a tensor as its decision
InitTensor ==
  /\ \E sc \in ScenariosTensor : inputs = sc.inputs /\ initial_state = sc.initial_state
  /\ path = <<initial_state>>
  /\ state = 1
  /\ wave_timeline = get_wave_timeline(inputs.horizon)
  /\ wave_state_timeline = get_wave_state_timeline(inputs.horizon)
  /\ pc = "tensor_vaccinate"
  /\ week = 0
  /\ decision \in Tensors(inputs.decision_period, initial_state.vaccines_available)
  /\ information = get_exogenous_information(path, 1, 0)
  /\ sim = [i |-> 0, total_new_infected |-> Zeros, total_new_deaths |-> Zeros,
            u |-> [k \in Layers |-> Compartments(initial_state)]]
  /\ obs = [before |-> [k \in Layers |-> Compartments(initial_state)],
            new_V  |-> [k \in Layers |-> Zeros]]
  /\ stop_reason = "none"
  /\ run_no = 1
  /\ periods = 0
  /\ first_path = << >>
  /\ rng_log = << >>
  /\ rng_pos = 0
  /\ rng_sync = TRUE

TensorFrame ==
  UNCHANGED <<inputs, state, wave_timeline, wave_state_timeline, week, decision,
              information, stop_reason, run_no, periods, first_path,
              rng_log, rng_pos, rng_sync>>

\* lines 89-96: np.minimum(S, decision/decision_period) has the shape of the
\* tensor, and so have S, R and V from here on; np.sum(new_V - ...) runs over
\* all layers
TensorVaccinate ==
  /\ pc = "tensor_vaccinate"
  /\ sim' = [sim EXCEPT !.u = [k \in Layers |->
                                 Vaccinate(sim.u[k], decision[k], inputs.decision_period)]]
  /\ WriteState(state, [path[state] EXCEPT !.vaccines_available =
                          @ + SumOver([k \in Layers |->
                                         UnusedV(sim.u[k], decision[k],
                                                 inputs.decision_period)], Layers)])
  /\ obs' = [before |-> sim.u,
             new_V  |-> [k \in Layers |->
                           NewV(sim.u[k], decision[k], inputs.decision_period)]]
  /\ pc' = "tensor_flow"
  /\ TensorFrame

\* lines 98-137 in the sub-periods 0 and 1: E2 and I have still the shape
\* (regions x age groups) at line 135, new_I and new_D fit into their slots
TensorFlow ==
  /\ pc = "tensor_flow"
  /\ sim.i < 2
  /\ LET R_eff == REff(inputs.use_waves, information)
         C     == generate_weighted_contact_matrix(contact_matrices,
                                                   information.contact_weights)
         work  == inputs.include_flow
                  /\ WorkingHours(Timestep(path[state].date, sim.i,
                                           inputs.decision_period))
         cases(loc) ==
           [c \in Cells |->
              ( ContactNum(loc, R_eff, information.alphas, C)[c]
                + (IF work THEN CommuterNum(loc, R_eff, information.flow_scale)[c]
                   ELSE 0) ) \div CasesDen(loc)[c]]
     IN  sim' = [i |-> sim.i + 1,
                 total_new_infected |-> SaveNewInfected(sim.total_new_infected, sim.u[1]),
                 total_new_deaths   |-> SaveNewDeaths(sim.total_new_deaths, sim.u[1]),
                 u |-> [k \in Layers |->
                          Flow(sim.u[k], NewE1(sim.u[k], cases(sim.u[k])))]]
  /\ pc' = IF sim.i + 1 = inputs.decision_period THEN "tensor_returned"
           ELSE "tensor_vaccinate"
  /\ UNCHANGED <<initial_state, path, obs>>
  /\ TensorFrame

\* sub-period 2: E2 has the shape of the tensor, and so has new_I;
\* total_new_infected[i] = new_I raises ValueError (as does np.matmul at
\* line 107 before it in working hours)
TensorRaises ==
  /\ pc = "tensor_flow"
  /\ sim.i >= 2
  /\ pc' = "error"
  /\ UNCHANGED <<initial_state, path, sim, obs>>
  /\ TensorFrame

NextTensor ==
  \/ TensorVaccinate
  \/ TensorFlow
  \/ TensorRaises

SpecTensor == InitTensor /\ [][NextTensor]_vars

\* C16: for a decision shaped (decision_sub_periods x regions x age groups)
\* the doses administered in sub-period i are min(current S, decision[i] /
\* decision_sub_periods), from slice i only; efficacy times these doses
\* leaves S and enters R, the vaccination step changes none of E1, E2, A, I
\* and D, and a zero decision administers nothing and changes nothing.
C16_VaccinationFromSlice ==
  pc = "tensor_flow" =>
    \A k \in Layers : \A c \in Cells :
      LET before == obs.before[k]
          after  == sim.u[k]
          doses  == Min(before.S[c], decision[sim.i + 1][c] \div inputs.decision_period)
      IN  /\ obs.new_V[k][c] = doses
          /\ after.S[c] = before.S[c] - (efficacy_pct * doses) \div 100
          /\ after.R[c] = before.R[c] + (efficacy_pct * doses) \div 100
          /\ after.E1[c] = before.E1[c] /\ after.E2[c] = before.E2[c]
          /\ after.A[c] = before.A[c] /\ after.I[c] = before.I[c]
          /\ after.D[c] = before.D[c]
          /\ (\A j \in Layers : decision[j] = Zeros) =>
               (doses = 0 /\ after = before)

(* ---------- update_state called on a State without infection --------- *)
\* no infection, close to the recovered threshold, doses at hand
StImmune == MkState(<<10, 10, 10, 10>>, Z4, Z4, Z4, Z4, <<20, 20, 25, 25>>,
                    Z4, Z4, 40, 0, 3)

ScenariosDirect ==
  { Scenario(s, TRUE, FALSE, FALSE, ModelNone, p, 3, dp, st) :
      s \in BOOLEAN, p \in {"no_vaccines", "susceptible_based"},
      dp \in {periods_per_day, 7 * periods_per_day}, st \in {StClean, StImmune} }

\* the constructed process of a caller that advances it with update_state
InitDirect ==
  /\ \E sc \in ScenariosDirect : inputs = sc.inputs /\ initial_state = sc.initial_state
  /\ path = << >>
  /\ state = 0
  /\ wave_timeline = << >>
  /\ wave_state_timeline = << >>
  /\ pc = "constructed"
  /\ week = 0
  /\ decision = Zeros
  /\ information = NoInformation
  /\ sim = NoSim
  /\ obs = NoObs
  /\ stop_reason = "none"
  /\ run_no = 0
  /\ periods = 0
  /\ first_path = << >>
  /\ rng_log = << >>
  /\ rng_pos = 0
  /\ rng_sync = TRUE

\* update_state(None, week) called after init(), with the State's time_step
\* as the week; run() is called when it has returned
UpdateStateDirect ==
  /\ pc = "run"
  /\ week' = path[state].time_step
  /\ pc' = "policy"
  /\ UNCHANGED <<inputs, initial_state, path, state, wave_timeline, wave_state_timeline,
                 decision, information, sim, obs, stop_reason, run_no, periods,
                 first_path, rng_log, rng_pos, rng_sync>>

NextDirect ==
  \/ MdpInit
  \/ UpdateStateDirect
  \/ GetDecision
  \/ GetExogenousInformation
  \/ SimulateEnter
  \/ SimVaccinate
  \/ SimFlowDeterministic
  \/ SimFlowStochastic
  \/ Transition
  \/ RunBreak
  \/ Finish

SpecDirect == InitDirect /\ [][NextDirect]_vars

\* E1, E2, A and I are zero in every cell
ZeroInfection(x) ==
  \A c \in Cells : x.E1[c] = 0 /\ x.E2[c] = 0 /\ x.A[c] = 0 /\ x.I[c] = 0

\* what C17 says of simulate itself, entered at the State before
NothingFromNothing(before) ==
  /\ InSimulate =>
       /\ ZeroInfection(sim)
       /\ sim.D = before.D
       /\ sim.total_new_infected = Zeros /\ sim.total_new_deaths = Zeros
       /\ \A c \in Cells : /\ sim.S[c] + sim.R[c] = before.S[c] + before.R[c]
                           /\ sim.S[c] <= before.S[c]
                           /\ decision[c] = 0 => sim.S[c] = before.S[c]
       /\ pc \in {"vaccinate", "transition"} => obs.new_E1 = Zeros
  /\ (pc \in {"loop", "finish", "done"} /\ periods >= 1) =>
       /\ ZeroInfection(path[Len(path)])
       /\ path[Len(path)].D = path[Len(path) - 1].D
       /\ path[Len(path)].new_infected = Zeros
       /\ path[Len(path)].new_deaths = Zeros

\* simulate was, or is being, run on a State without infection
FromNothing ==
  \/ InSimulate /\ ZeroInfection(path[state])
  \/ pc \in {"loop", "finish", "done"} /\ periods >= 1
     /\ ZeroInfection(path[Len(path) - 1])

\* the State simulate was entered at
Entered == IF InSimulate THEN path[state] ELSE path[Len(path) - 1]

\* C17: if E1, E2, A and I are zero in every cell at the start of simulate,
\* they are zero after every sub-period, S changes only by the vaccination
\* step, D is unchanged and the returned new-infected and new-deaths totals
\* are zero; the following stop check halts the run by the
\* no-active-infection criterion.
C17_NoInfectionFromNothing ==
  FromNothing =>
    /\ NothingFromNothing(Entered)
    /\ (pc = "loop" /\ periods >= 1) =>
         check_stop_criteria(path[state], inputs.population) = "no_infection"
    /\ (pc \in {"finish", "done"} /\ periods >= 1) => stop_reason = "no_infection"

\* C17 as amended: the following stop check halts the run, and the
\* no-active-infection criterion holds in it; the recovered threshold, which
\* is tested first, is the criterion that halts when it holds as well.
C17_NothingFromNothingHalts ==
  FromNothing =>
    /\ NothingFromNothing(Entered)
    /\ (pc = "loop" /\ periods >= 1) =>
         /\ NoActiveInfection(path[state])
         /\ check_stop_criteria(path[state], inputs.population) =
              IF RecoveredThreshold(path[state])
              THEN "recovered" ELSE "no_infection"
    /\ (pc \in {"finish", "done"} /\ periods >= 1) =>
         /\ stop_reason \in {"recovered", "no_infection"}
         /\ periods = 1

\* a stochastic period with vaccination on a State without infection has
\* been appended and the stop check is about to halt the run
C17_Witness ==
  /\ pc = "loop"
  /\ periods = 1
  /\ inputs.stochastic
  /\ ZeroInfection(path[1])
  /\ SumCells(path[2].V) > SumCells(path[1].V)
  /\ SumCells(path[2].S) < SumCells(path[1].S)
  /\ check_stop_criteria(path[state], inputs.population) = "no_infection"

\* the days one decision period advances the date
DaysPerPeriod == inputs.decision_period \div periods_per_day

\* the historic records that the period entered at State k has counted
Counted(k) == SupplyWindow(path[k].date, inputs.decision_period)

\* the periods whose exogenous information has been obtained
Supplied ==
  1..(IF pc \in {"simulate", "vaccinate", "flow", "transition"}
      THEN Len(path) ELSE Len(path) - 1)

\* C18: the supply of a period is half (truncated) of the vaccine_supply_new
\* of the records dated after the State's date and up to that date plus
\* decision_period div periods_per_day days, zero without such a record; the
\* date advances by that number of days per transition, the windows of the
\* periods are disjoint and contiguous, and every record after the start
\* date within the simulated span is counted in exactly one period.
C18_SupplyWindows ==
  /\ pc \in {"simulate", "vaccinate", "flow", "transition"} =>
       LET today == path[state].date
           dated == { d \in DOMAIN historic_data :
                        today < d /\ d <= today + DaysPerPeriod }
       IN  /\ information.vaccine_supply >= 0
           /\ dated = {} => information.vaccine_supply = 0
           /\ 2 * information.vaccine_supply <= SumOver(historic_data, dated)
           /\ SumOver(historic_data, dated) <= 2 * information.vaccine_supply + 1
  /\ \A k \in 1..(Len(path) - 1) : path[k + 1].date = path[k].date + DaysPerPeriod
  /\ \A j \in Supplied : \A k \in Supplied :
       j # k => Counted(j) \cap Counted(k) = {}
  /\ \A d \in DOMAIN historic_data :
       (Supplied # {} /\ path[1].date < d
        /\ d <= path[1].date + Cardinality(Supplied) * DaysPerPeriod) =>
         Cardinality({ k \in Supplied : d \in Counted(k) }) = 1

\* the second week of a run: both weeks have records in their windows, and
\* the first week's doses are an odd number that is halved
C18_Witness ==
  /\ pc = "simulate"
  /\ periods = 1
  /\ WeeklyPeriod
  /\ information.vaccine_supply > 0
  /\ Counted(1) # {} /\ Counted(2) # {}
  /\ SumOver(historic_data, Counted(1)) % 2 = 1

=============================================================================
